---- MODULE Spec2Model ----
(***************************************************************************)
(* Model of treeherder's failure-line autoclassification:                  *)
(*   treeherder/autoclassify/matchers.py                                   *)
(*   treeherder/autoclassify/management/commands/autoclassify.py           *)
(*                                                                         *)
(* Scores are integers in thousandths (1000 = 1.0).  Strings are sequences *)
(* of one-character strings.  A null reference to a classified failure is  *)
(* NoCF, a null string field is NoneVal.                                   *)
(***************************************************************************)
EXTENDS Integers, Sequences, FiniteSets, TLC

\* ------------------------------------------------------------------ bounds
MaxMsgLen == 2
MaxCands == 2
MaxLines == 2
MaxHist == 2
MaxRuns == 2
MaxBatch == 5

\* --------------------------------------------------------------- constants
Scale == 1000
AUTOCLASSIFY_CUTOFF_RATIO == 700
AUTOCLASSIFY_GOOD_ENOUGH_RATIO == 900
PoolSize == 4
NoCF == 0
NoneVal == "None"
Chars == {"a", " "}

Min2(x, y) == IF x <= y THEN x ELSE y

\* ------------------------------------------------- difflib.SequenceMatcher
\* MatchScorer.__init__: SequenceMatcher(lambda x: x == " ")
isjunk(x) == x = " "

CountIn(s, c) == Cardinality({i \in 1..Len(s) : s[i] = c})

\* SequenceMatcher._calculate_ratio, in thousandths
calculate_ratio(matches, length) ==
    IF length # 0 THEN (2 * Scale * matches) \div length ELSE Scale

RECURSIVE SumMin(_, _, _)
SumMin(a, b, cs) ==
    IF cs = {} THEN 0
    ELSE LET c == CHOOSE x \in cs : TRUE
         IN Min2(CountIn(a, c), CountIn(b, c)) + SumMin(a, b, cs \ {c})

\* SequenceMatcher.quick_ratio: multiset intersection of the two strings
quick_ratio(a, b) ==
    calculate_ratio(SumMin(a, b, {a[i] : i \in 1..Len(a)}), Len(a) + Len(b))

\* a[i..i+k-1] = b[j..j+k-1] with no junk element of b (b2j holds no junk)
IsBlock(a, b, i, j, k) ==
    \A t \in 0..(k - 1) : a[i + t] = b[j + t] /\ ~isjunk(b[j + t])

RECURSIVE ExtendLeft(_, _, _, _, _)
\* third and first "while" of find_longest_match: grow the block to the left
\* over matching junk elements; m = <<besti, bestj, bestsize>>
ExtendLeft(a, b, alo, blo, m) ==
    IF m[1] > alo /\ m[2] > blo /\ isjunk(b[m[2] - 1]) /\ a[m[1] - 1] = b[m[2] - 1]
    THEN ExtendLeft(a, b, alo, blo, <<m[1] - 1, m[2] - 1, m[3] + 1>>)
    ELSE m

RECURSIVE ExtendRight(_, _, _, _, _)
ExtendRight(a, b, ahi, bhi, m) ==
    IF m[1] + m[3] < ahi /\ m[2] + m[3] < bhi
       /\ isjunk(b[m[2] + m[3]]) /\ a[m[1] + m[3]] = b[m[2] + m[3]]
    THEN ExtendRight(a, b, ahi, bhi, <<m[1], m[2], m[3] + 1>>)
    ELSE m

\* SequenceMatcher.find_longest_match over a[alo..ahi-1], b[blo..bhi-1]
\* (1-based, ahi and bhi exclusive): the longest junk-free block, the one
\* starting earliest in a, then earliest in b, then extended over junk.
find_longest_match(a, b, alo, ahi, blo, bhi) ==
    LET blocks == {m \in (alo..(ahi - 1)) \X (blo..(bhi - 1)) \X (1..(ahi - alo)) :
                      /\ m[1] + m[3] <= ahi
                      /\ m[2] + m[3] <= bhi
                      /\ IsBlock(a, b, m[1], m[2], m[3])}
        best == IF blocks = {} THEN <<alo, blo, 0>>
                ELSE CHOOSE m \in blocks :
                       \A o \in blocks :
                          \/ m[3] > o[3]
                          \/ m[3] = o[3] /\ m[1] < o[1]
                          \/ m[3] = o[3] /\ m[1] = o[1] /\ m[2] <= o[2]
    IN ExtendRight(a, b, ahi, bhi, ExtendLeft(a, b, alo, blo, best))

RECURSIVE MatchedSize(_, _, _, _, _, _)
\* sum of the sizes of SequenceMatcher.get_matching_blocks
MatchedSize(a, b, alo, ahi, blo, bhi) ==
    LET m == find_longest_match(a, b, alo, ahi, blo, bhi)
    IN IF m[3] = 0 THEN 0
       ELSE m[3]
            + (IF alo < m[1] /\ blo < m[2]
               THEN MatchedSize(a, b, alo, m[1], blo, m[2]) ELSE 0)
            + (IF m[1] + m[3] < ahi /\ m[2] + m[3] < bhi
               THEN MatchedSize(a, b, m[1] + m[3], ahi, m[2] + m[3], bhi) ELSE 0)

\* SequenceMatcher.ratio with seq1 = a (candidate) and seq2 = b (target)
ratio(a, b) ==
    calculate_ratio(MatchedSize(a, b, 1, Len(a) + 1, 1, Len(b) + 1), Len(a) + Len(b))

\* --------------------------------------------------------------- MatchScorer
\* ScoreStep with ">=" in the second test: the last of equal candidates wins
ScoreStepLastWins(target, best, cand) ==
    IF best = <<>> \/ quick_ratio(cand[2], target) >= best[1]
    THEN LET new_ratio == ratio(cand[2], target)
         IN IF best = <<>> \/ new_ratio >= best[1]
            THEN <<new_ratio, cand[1]>>
            ELSE best
    ELSE best

\* ScoreStep that keeps None for a candidate with ratio 0
ScoreStepPositive(target, best, cand) ==
    IF best = <<>> \/ quick_ratio(cand[2], target) >= best[1]
    THEN LET new_ratio == ratio(cand[2], target)
         IN IF (best = <<>> /\ new_ratio > 0) \/ (best # <<>> /\ new_ratio > best[1])
            THEN <<new_ratio, cand[1]>>
            ELSE best
    ELSE best

\* One iteration of the loop of MatchScorer.best_match; best is <<>> (None)
\* or <<ratio, match>>; cand is <<match, message>>.
ScoreStep(target, best, cand) ==
    IF best = <<>> \/ quick_ratio(cand[2], target) >= best[1]
    THEN LET new_ratio == ratio(cand[2], target)
         IN IF best = <<>> \/ new_ratio > best[1]
            THEN <<new_ratio, cand[1]>>
            ELSE best
    ELSE best

RECURSIVE ScoreFrom(_, _, _, _)
ScoreFrom(target, matches, k, best) ==
    IF k > Len(matches) THEN best
    ELSE ScoreFrom(target, matches, k + 1, ScoreStep(target, best, matches[k]))

\* MatchScorer(target).best_match(matches)
best_match(target, matches) == ScoreFrom(target, matches, 1, <<>>)


\* ------------------------------------------------------------- store rows
JobGuid == "J1"
OtherGuid == "J2"
CFIds == {1, 2}

\* A FailureLine row.  subtest, status and expected take one value each in
\* the rows below unless stated.
FL(id, guid, action, test, message, signature, bc, verified) ==
    [id |-> id, job_guid |-> guid, action |-> action, test |-> test,
     subtest |-> NoneVal, status |-> "FAIL", expected |-> "PASS",
     message |-> message, signature |-> signature,
     best_classification |-> bc, best_is_verified |-> verified]

\* The failure lines a job under classification may have (ids 1..6).
JobLineCatalog ==
    << FL(1, JobGuid, "crash", "T1", <<>>, "SIG1", NoCF, FALSE),
       FL(2, JobGuid, "test_result", "T1", <<"a", "a">>, NoneVal, NoCF, FALSE),
       FL(3, JobGuid, "test_result", "T2", <<"a", "a">>, NoneVal, NoCF, FALSE),
       FL(4, JobGuid, "test_result", "T1", <<>>, NoneVal, NoCF, FALSE),
       FL(5, JobGuid, "test_result", "T1", <<"a", "a">>, NoneVal, 1, TRUE),
       FL(6, JobGuid, "crash", "T1", <<>>, "SIG1", 2, FALSE) >>

\* The failure lines of other jobs (ids 11..19), with every combination of
\* best_classification set or unset and best_is_verified.
HistLineCatalog ==
    << FL(11, OtherGuid, "crash", "T1", <<>>, "SIG1", 1, FALSE),
       FL(12, OtherGuid, "crash", "T2", <<>>, "SIG1", 2, TRUE),
       FL(13, OtherGuid, "crash", "T1", <<>>, "SIG1", NoCF, TRUE),
       FL(14, OtherGuid, "crash", "T2", <<>>, "SIG1", NoCF, FALSE),
       FL(15, OtherGuid, "crash", "T1", <<>>, "SIG2", 1, FALSE),
       FL(16, OtherGuid, "test_result", "T1", <<"a", "a">>, NoneVal, 1, FALSE),
       FL(17, OtherGuid, "test_result", "T1", <<"a", "a">>, NoneVal, NoCF, TRUE),
       FL(18, OtherGuid, "test_result", "T1", <<"a", "a">>, NoneVal, NoCF, FALSE),
       FL(19, OtherGuid, "test_result", "T1", <<"a", "a", "a">>, NoneVal, 2, TRUE) >>


\* The documents of the search index (TestFailureLine), in index order.
ESDoc(id, test, message, bc) ==
    [id |-> id, test |-> test, subtest |-> NoneVal, status |-> "FAIL",
     expected |-> "PASS", message |-> message, best_classification |-> bc]

ESIndex ==
    << ESDoc(31, "T1", <<"a", "a", "a">>, 2),
       ESDoc(32, "T1", <<"a", "a">>, NoCF),
       ESDoc(33, "T2", <<"a", "a", "a">>, 2),
       ESDoc(34, "T2", <<"a", "a">>, 1),
       ESDoc(35, "T2", <<"a", "a">>, 2) >>

\* ------------------------------------------------------------------ state
VARIABLES
    failure_lines,      \* FailureLine table: line id -> row
    failure_matches,    \* FailureMatch table: set of rows
    job,                \* what jm.get_job_ids_by_guid finds: [found, id, result]
    es_up,              \* the search connection exists (es_connected)
    registry,           \* Matcher.objects.registered_matchers()
    pc,                 \* position of match_errors
    unmatched_failures, \* local of match_errors: set of line ids
    all_matched,        \* local of match_errors: set of line ids
    matcher_idx,        \* index of the next matcher of the for loop
    calls,              \* history: one record per matcher call of this run
    good_enough,        \* history: lines that got a Match >= 0.9 in this run
    saves,              \* history: FailureLine.save() calls of this run
    notified,           \* update_after_autoclassification calls of this run
    fault,              \* the exception that left match_errors, or "none"
    run,                \* number of the current run of match_errors
    store0,             \* the two tables as they were when the run started
    best_after,         \* per finished run: best_classification of every line
                        \* and the fault that ended it
    s_target, s_matches, s_result, \* MatchScorer: target, candidates, result
    pool                \* one ElasticSearchTestMatcher call on its thread pool

vars == <<failure_lines, failure_matches, job, es_up, registry, pc,
          unmatched_failures, all_matched, matcher_idx, calls, good_enough,
          saves, notified, fault, run, store0, best_after,
          s_target, s_matches, s_result, pool>>

\* ----------------------------------------------------------------- helpers
RECURSIVE SortedIds(_)
\* The ids of a set in ascending order.  The matchers iterate a Python set;
\* each line is matched on its own, so the order decides only the order of
\* the returned list and of the rows created from it.
SortedIds(S) ==
    IF S = {} THEN <<>>
    ELSE LET m == CHOOSE x \in S : \A y \in S : x <= y
         IN <<m>> \o SortedIds(S \ {m})

Range(f) == {f[i] : i \in DOMAIN f}

\* order_by("-score", "-classified_failure__id").first()
BestByScore(cands) ==
    CHOOSE e \in cands :
        \A o \in cands :
            \/ e.score > o.score
            \/ e.score = o.score /\ e.classified_failure >= o.classified_failure

\* ---------------------------------------------------------------- matchers
\* ignored_line with the verified flag the other way round
ignored_line_unverified(hl) ==
    hl.best_classification = NoCF /\ hl.best_is_verified = FALSE

\* ignored_line, on the failure line hl of an edge
ignored_line(hl) == hl.best_classification = NoCF /\ hl.best_is_verified = TRUE

\* .exclude(ignored_line | Q(failure_line__job_guid=failure_line.job_guid))
Excluded(hl, line) == ignored_line(hl) \/ hl.job_guid = line.job_guid

Match(line, cf, score, via) ==
    [failure_line |-> line, classified_failure |-> cf, score |-> score, via |-> via]

\* the query of PreciseTestMatcher without the filter on the message
PreciseCandidatesAnyMessage(line, fls, fms) ==
    {e \in fms :
        LET hl == fls[e.failure_line]
        IN /\ hl.action = "test_result"
           /\ hl.test = line.test
           /\ hl.subtest = line.subtest
           /\ hl.status = line.status
           /\ hl.expected = line.expected
           /\ ~Excluded(hl, line)}

\* the query of PreciseTestMatcher for one line
PreciseCandidates(line, fls, fms) ==
    {e \in fms :
        LET hl == fls[e.failure_line]
        IN /\ hl.action = "test_result"
           /\ hl.test = line.test
           /\ hl.subtest = line.subtest
           /\ hl.status = line.status
           /\ hl.expected = line.expected
           /\ hl.message = line.message
           /\ ~Excluded(hl, line)}

PreciseMatchLine(line, fls, fms) ==
    IF line.action = "test_result"
    THEN LET matching_failures == PreciseCandidates(line, fls, fms)
         IN IF matching_failures # {}
            THEN LET best == BestByScore(matching_failures)
                 IN << Match(line.id, best.classified_failure, best.score, best.id) >>
            ELSE <<>>
    ELSE <<>>

RECURSIVE PreciseLoop(_, _, _)
PreciseLoop(ids, fls, fms) ==
    IF ids = <<>> THEN <<>>
    ELSE PreciseMatchLine(fls[Head(ids)], fls, fms) \o PreciseLoop(Tail(ids), fls, fms)

\* PreciseTestMatcher.__call__
PreciseTestMatcher(lines, fls, fms) ==
    [fault |-> "none", rv |-> PreciseLoop(SortedIds(lines), fls, fms)]

\* the query of CrashSignatureMatcher for one line
CrashCandidates(line, fls, fms) ==
    {e \in fms :
        LET hl == fls[e.failure_line]
        IN /\ hl.action = "crash"
           /\ hl.signature = line.signature
           /\ ~Excluded(hl, line)}

\* CrashBest ordered by "-score", "-classified_failure__id" alone
CrashBestByScore(line, cands, fls) ==
    CHOOSE e \in cands :
        \A o \in cands :
            \/ e.score > o.score
            \/ e.score = o.score /\ e.classified_failure >= o.classified_failure

\* order_by(Eq('failure_line__test', Value(failure_line.test)).desc(),
\*          "-score", "-classified_failure__id").first()
CrashBest(line, cands, fls) ==
    LET eq(e) == IF fls[e.failure_line].test = line.test THEN 1 ELSE 0
    IN CHOOSE e \in cands :
         \A o \in cands :
            \/ eq(e) > eq(o)
            \/ eq(e) = eq(o) /\ e.score > o.score
            \/ eq(e) = eq(o) /\ e.score = o.score
               /\ e.classified_failure >= o.classified_failure

\* CrashMatchLine appending its Match twice
CrashMatchLineTwice(line, fls, fms) ==
    IF line.action # "crash" \/ line.signature = NoneVal THEN <<>>
    ELSE LET matching_failures == CrashCandidates(line, fls, fms)
         IN IF matching_failures # {}
            THEN LET best == CrashBest(line, matching_failures, fls)
                     m == Match(line.id, best.classified_failure,
                                (IF line.test # fls[best.failure_line].test
                                 THEN (8 * best.score) \div 10 ELSE best.score),
                                best.id)
                 IN <<m, m>>
            ELSE <<>>

\* CrashScore with the factor upside down
CrashScoreRaised(line, hl, score) ==
    IF line.test # hl.test THEN (10 * score) \div 8 ELSE score

\* CrashScore with the penalty applied to every match
CrashScoreAlways(line, hl, score) == (8 * score) \div 10

\* "score = 8 * score / 10" when the tests differ
CrashScore(line, hl, score) ==
    IF line.test # hl.test THEN (8 * score) \div 10 ELSE score

CrashMatchLine(line, fls, fms) ==
    IF line.action # "crash" \/ line.signature = NoneVal THEN <<>>
    ELSE LET matching_failures == CrashCandidates(line, fls, fms)
         IN IF matching_failures # {}
            THEN LET best == CrashBest(line, matching_failures, fls)
                 IN << Match(line.id, best.classified_failure,
                             CrashScore(line, fls[best.failure_line], best.score),
                             best.id) >>
            ELSE <<>>

RECURSIVE CrashLoop(_, _, _)
CrashLoop(ids, fls, fms) ==
    IF ids = <<>> THEN <<>>
    ELSE CrashMatchLine(fls[Head(ids)], fls, fms) \o CrashLoop(Tail(ids), fls, fms)

\* CrashSignatureMatcher.__call__
CrashSignatureMatcher(lines, fls, fms) ==
    [fault |-> "none", rv |-> CrashLoop(SortedIds(lines), fls, fms)]

\* es_match_line returns None for these lines
ESNotApplicable(line) == line.action # "test_result" \/ line.message = <<>>

\* the "phrase" match of the query: the message occurs in the document
PhraseMatch(q, m) ==
    \E o \in 0..(Len(m) - Len(q)) : \A t \in 1..Len(q) : m[o + t] = q[t]

\* the filters and the query of es_match_line
ESHit(line, d) ==
    /\ d.test = line.test
    /\ d.status = line.status
    /\ d.expected = line.expected
    /\ d.best_classification # NoCF
    /\ PhraseMatch(line.message, d.message)
    /\ (line.subtest # NoneVal => d.subtest = line.subtest)

RECURSIVE ESHits(_, _, _)
\* the response of the search: the hits as (item, item.message) pairs
ESHits(line, index, k) ==
    IF k > Len(index) THEN <<>>
    ELSE (IF ESHit(line, index[k]) THEN << <<index[k], index[k].message>> >> ELSE <<>>)
         \o ESHits(line, index, k + 1)

\* the body of the loop of ElasticSearchTestMatcher.__call__ for one line
ESMatchLine(line, index) ==
    LET best == best_match(line.message, ESHits(line, index, 1))
    IN IF best # <<>>
       THEN << Match(line.id, best[2].best_classification, best[1], best[2].id) >>
       ELSE <<>>

RECURSIVE ESLoop(_, _, _)
\* the loop over izip(failure_lines, responses); iterating a response that
\* is None raises TypeError
ESLoop(ids, fls, index) ==
    IF ids = <<>> THEN [fault |-> "none", rv |-> <<>>]
    ELSE IF ESNotApplicable(fls[Head(ids)]) THEN [fault |-> "TypeError", rv |-> <<>>]
    ELSE LET rest == ESLoop(Tail(ids), fls, index)
         IN IF rest.fault # "none" THEN rest
            ELSE [fault |-> "none",
                  rv |-> ESMatchLine(fls[Head(ids)], index) \o rest.rv]

\* ElasticSearchTestMatcher.__call__ with a failed search taken as an empty
\* response instead of being raised again
ElasticSearchTestMatcherSwallow(lines, fls, index, connected, qfail) ==
    IF ~connected THEN [fault |-> "none", rv |-> <<>>]
    ELSE ESLoop(SortedIds(lines \ qfail), fls, index)

\* ElasticSearchTestMatcher.__call__; qfail is the set of lines whose search
\* raises, connected is what es_connected sees
ElasticSearchTestMatcher(lines, fls, index, connected, qfail) ==
    IF ~connected THEN [fault |-> "none", rv |-> <<>>]
    ELSE IF \E l \in lines : ~ESNotApplicable(fls[l]) /\ l \in qfail
         THEN [fault |-> "QueryFault", rv |-> <<>>]
    ELSE ESLoop(SortedIds(lines), fls, index)

\* register() with the fuzzy search matcher before the crash matcher
RegisteredMatchersSwapped ==
    <<"PreciseTestMatcher", "ElasticSearchTestMatcher", "CrashSignatureMatcher">>

\* register(): the order the matchers are registered in
RegisteredMatchers ==
    <<"PreciseTestMatcher", "CrashSignatureMatcher", "ElasticSearchTestMatcher">>

CallMatcher(name, lines, fls, fms, connected, qfail) ==
    IF name = "PreciseTestMatcher" THEN PreciseTestMatcher(lines, fls, fms)
    ELSE IF name = "CrashSignatureMatcher" THEN CrashSignatureMatcher(lines, fls, fms)
    ELSE ElasticSearchTestMatcher(lines, fls, ESIndex, connected, qfail)


\* ----------------------------------------------- store operations (models)
\* FailureLine.objects.unmatched_for_job: the lines of the job that have no
\* verified best_classification
unmatched_for_job(fls, guid) ==
    {l \in DOMAIN fls :
        /\ fls[l].job_guid = guid
        /\ ~(fls[l].best_is_verified /\ fls[l].best_classification # NoCF)}

\* FailureLine.best_automatic_match(min_score): the highest-scoring edge of
\* the line with score >= min_score, ties to the highest classified failure
\* id; <<>> when there is none
best_automatic_match(l, fms, min_score) ==
    LET cands == {e \in fms : e.failure_line = l /\ e.score >= min_score}
    IN IF cands = {} THEN <<>> ELSE <<BestByScore(cands)>>

\* ------------------------------------------------------------ match_errors
\* "if job["result"] not in [...]: return"
FailingResults == {"testfailed", "busted", "exception"}
\* the result gate left out
IsFailingResultAny(r) == TRUE

IsFailingResult(r) == r \in FailingResults

\* the good-enough test with ">" for ">="
IsGoodEnoughStrict(score) == score > AUTOCLASSIFY_GOOD_ENOUGH_RATIO

\* "if match.score >= AUTOCLASSIFY_GOOD_ENOUGH_RATIO"
IsGoodEnough(score) == score >= AUTOCLASSIFY_GOOD_ENOUGH_RATIO

NewEdgeBase == 100
NextEdgeId(fms) == NewEdgeBase + Cardinality({e \in fms : e.id > NewEdgeBase}) + 1

RECURSIVE PersistMatchesCatch(_, _, _)
\* PersistMatches after a matcher call wrapped in "try ... except: matches =
\* []": the fault of the matcher is dropped and the loop goes on
PersistMatchesCatch(rv, name, st) ==
    IF rv = <<>> THEN [st EXCEPT !.fault = "none"]
    ELSE LET m == Head(rv)
             edge == [id |-> NextEdgeId(st.fms), failure_line |-> m.failure_line,
                      classified_failure |-> m.classified_failure,
                      score |-> m.score, matcher |-> name]
             st1 == [st EXCEPT !.fms = @ \cup {edge},
                               !.saves = @ + 1,
                               !.all_matched = @ \cup {m.failure_line}]
         IN IF IsGoodEnough(m.score)
            THEN IF m.failure_line \in st.unmatched
                 THEN PersistMatchesCatch(Tail(rv), name,
                          [st1 EXCEPT !.unmatched = @ \ {m.failure_line}])
                 ELSE [st1 EXCEPT !.fault = "KeyError"]
            ELSE PersistMatchesCatch(Tail(rv), name, st1)

RECURSIVE PersistMatches(_, _, _)
\* the inner loop of match_errors over the matches of one matcher; st holds
\* the tables and locals it changes.  set.remove of an absent line raises
\* KeyError and leaves what was written before it.
PersistMatches(rv, name, st) ==
    IF rv = <<>> \/ st.fault # "none" THEN st
    ELSE LET m == Head(rv)
             edge == [id |-> NextEdgeId(st.fms), failure_line |-> m.failure_line,
                      classified_failure |-> m.classified_failure,
                      score |-> m.score, matcher |-> name]
             st1 == [st EXCEPT !.fms = @ \cup {edge},
                               !.saves = @ + 1,
                               !.all_matched = @ \cup {m.failure_line}]
         IN IF IsGoodEnough(m.score)
            THEN IF m.failure_line \in st.unmatched
                 THEN PersistMatches(Tail(rv), name,
                          [st1 EXCEPT !.unmatched = @ \ {m.failure_line}])
                 ELSE [st1 EXCEPT !.fault = "KeyError"]
            ELSE PersistMatches(Tail(rv), name, st1)

\* match_errors without the loop over all_matched
AssignBestSkip(ids, fls, fms, n) == [fls |-> fls, saves |-> n]

RECURSIVE AssignBestNoCutoff(_, _, _, _)
\* AssignBest with a cutoff of 0 passed to best_automatic_match
AssignBestNoCutoff(ids, fls, fms, n) ==
    IF ids = <<>> THEN [fls |-> fls, saves |-> n]
    ELSE LET best == best_automatic_match(Head(ids), fms, 0)
         IN IF best # <<>>
            THEN AssignBestNoCutoff(Tail(ids),
                     [fls EXCEPT ![Head(ids)].best_classification =
                                     best[1].classified_failure],
                     fms, n + 1)
            ELSE AssignBestNoCutoff(Tail(ids), fls, fms, n)

RECURSIVE AssignBest(_, _, _, _)
\* the loop over all_matched: set best_classification from the best
\* automatic match, when there is one
AssignBest(ids, fls, fms, n) ==
    IF ids = <<>> THEN [fls |-> fls, saves |-> n]
    ELSE LET best == best_automatic_match(Head(ids), fms, AUTOCLASSIFY_CUTOFF_RATIO)
         IN IF best # <<>>
            THEN AssignBest(Tail(ids),
                     [fls EXCEPT ![Head(ids)].best_classification =
                                     best[1].classified_failure],
                     fms, n + 1)
            ELSE AssignBest(Tail(ids), fls, fms, n)

LocalsUnchanged == UNCHANGED <<unmatched_failures, all_matched, matcher_idx>>
StoreUnchanged == UNCHANGED <<failure_lines, failure_matches>>
WorldUnchanged == UNCHANGED <<job, es_up, registry, run, store0, best_after,
                              s_target, s_matches, s_result, pool>>
HistoryUnchanged == UNCHANGED <<calls, good_enough, saves, notified, fault>>

\* job = jm.get_job_ids_by_guid([job_guid]).get(job_guid); "if not job: return"
FetchJob ==
    /\ pc = "fetch-job"
    /\ pc' = IF job.found THEN "filter-by-result" ELSE "done"
    /\ LocalsUnchanged /\ StoreUnchanged /\ WorldUnchanged /\ HistoryUnchanged

FilterByResult ==
    /\ pc = "filter-by-result"
    /\ pc' = IF IsFailingResult(job.result) THEN "fetch-unmatched" ELSE "done"
    /\ LocalsUnchanged /\ StoreUnchanged /\ WorldUnchanged /\ HistoryUnchanged

\* unmatched_failures = set(...unmatched_for_job(...)); "if not
\* unmatched_failures: return"; all_matched = set()
FetchUnmatched ==
    /\ pc = "fetch-unmatched"
    /\ unmatched_failures' = unmatched_for_job(failure_lines, JobGuid)
    /\ all_matched' = {}
    /\ matcher_idx' = 1
    /\ pc' = IF unmatched_failures' = {} THEN "done"
             ELSE IF Len(registry) = 0 THEN "resolve-best" ELSE "run-matchers"
    /\ StoreUnchanged /\ WorldUnchanged /\ HistoryUnchanged

\* the searches that may raise in this call: only the search matcher issues
\* any, and only for applicable lines when the connection exists
QueryFailures(name) ==
    IF name = "ElasticSearchTestMatcher" /\ es_up
    THEN SUBSET {l \in unmatched_failures : ~ESNotApplicable(failure_lines[l])}
    ELSE {{}}

\* one iteration of "for matcher in registered_matchers()": the call, the
\* loop over its matches, and "if not unmatched_failures: break"
RunMatcher ==
    /\ pc = "run-matchers"
    /\ \E qfail \in QueryFailures(registry[matcher_idx]) :
        LET name == registry[matcher_idx]
            out == CallMatcher(name, unmatched_failures, failure_lines,
                               failure_matches, es_up, qfail)
            st == PersistMatches(out.rv, name,
                      [fms |-> failure_matches, saves |-> saves,
                       all_matched |-> all_matched,
                       unmatched |-> unmatched_failures, fault |-> out.fault])
        IN /\ calls' = Append(calls, [matcher |-> name,
                                      lines |-> unmatched_failures,
                                      good_before |-> good_enough,
                                      edges_before |-> {e.id : e \in failure_matches},
                                      qfail |-> qfail,
                                      fault |-> out.fault,
                                      rv |-> out.rv])
           /\ failure_matches' = st.fms
           /\ saves' = st.saves
           /\ all_matched' = st.all_matched
           /\ unmatched_failures' = st.unmatched
           /\ good_enough' = good_enough \cup
                  {e.failure_line : e \in {x \in st.fms \ failure_matches :
                                             x.score >= 900}}
           /\ fault' = st.fault
           /\ IF st.fault # "none"
              THEN pc' = "fault" /\ matcher_idx' = matcher_idx
              ELSE IF st.unmatched = {} \/ matcher_idx = Len(registry)
              THEN pc' = "resolve-best" /\ matcher_idx' = matcher_idx
              ELSE pc' = "run-matchers" /\ matcher_idx' = matcher_idx + 1
    /\ UNCHANGED <<failure_lines, notified>>
    /\ WorldUnchanged

\* "for failure_line in all_matched: ..."
ResolveBest ==
    /\ pc = "resolve-best"
    /\ LET r == AssignBest(SortedIds(all_matched), failure_lines,
                           failure_matches, saves)
       IN failure_lines' = r.fls /\ saves' = r.saves
    /\ pc' = "notify"
    /\ UNCHANGED <<failure_matches, calls, good_enough, notified, fault>>
    /\ LocalsUnchanged /\ WorldUnchanged

\* Notify without the test of all_matched
NotifyAlways ==
    /\ pc = "notify"
    /\ notified' = notified + 1
    /\ pc' = "done"
    /\ UNCHANGED <<calls, good_enough, saves, fault>>
    /\ LocalsUnchanged /\ StoreUnchanged /\ WorldUnchanged

\* "if all_matched: jm.update_after_autoclassification(job_id)"
Notify ==
    /\ pc = "notify"
    /\ notified' = IF all_matched # {} THEN notified + 1 ELSE notified
    /\ pc' = "done"
    /\ UNCHANGED <<calls, good_enough, saves, fault>>
    /\ LocalsUnchanged /\ StoreUnchanged /\ WorldUnchanged

BestOf(fls) == [l \in DOMAIN fls |-> fls[l].best_classification]

\* match_errors is called again on the same job
NextRun ==
    /\ pc \in {"done", "fault"}
    /\ run < MaxRuns
    /\ run' = run + 1
    /\ best_after' = Append(best_after, [best |-> BestOf(failure_lines),
                                         fault |-> fault])
    /\ store0' = [lines |-> failure_lines, matches |-> failure_matches]
    /\ pc' = "fetch-job"
    /\ unmatched_failures' = {} /\ all_matched' = {} /\ matcher_idx' = 1
    /\ calls' = <<>> /\ good_enough' = {} /\ saves' = 0 /\ notified' = 0
    /\ fault' = "none"
    /\ StoreUnchanged
    /\ UNCHANGED <<job, es_up, registry, s_target, s_matches, s_result, pool>>

\* --------------------------------------------------------- initial states
HE(id, line, cf, score) ==
    [id |-> id, failure_line |-> line, classified_failure |-> cf,
     score |-> score, matcher |-> "earlier"]

\* FailureMatch edges that earlier runs on other jobs may have left
HistEdgeCatalog ==
    << HE(1, 11, 1, 1000), HE(2, 11, 2, 600), HE(3, 12, 2, 1000),
       HE(4, 12, 1, 1000), HE(5, 13, 1, 1000), HE(6, 14, 2, 900),
       HE(7, 15, 1, 1000), HE(8, 16, 1, 900), HE(9, 16, 2, 900),
       HE(10, 16, 1, 700), HE(11, 17, 2, 1000), HE(12, 19, 2, 1000) >>

SubsetsUpTo(S, n) == {T \in SUBSET S : Cardinality(T) <= n}

JobRows ==
    {[found |-> FALSE, id |-> 0, result |-> "none"]}
    \cup {[found |-> TRUE, id |-> 1, result |-> r] :
             r \in FailingResults \cup {"success"}}

\* The history varies under the result "testfailed"; the other job rows are
\* explored with every choice of lines and an empty FailureMatch table.
HistChoices(j) ==
    IF j.result = "testfailed"
    THEN SubsetsUpTo(DOMAIN HistEdgeCatalog, MaxHist)
    ELSE {{}}

LineTable(J) ==
    LET rows == {JobLineCatalog[i] : i \in J} \cup Range(HistLineCatalog)
    IN [l \in {r.id : r \in rows} |-> CHOOSE r \in rows : r.id = l]

ScorerIdle == s_target = <<>> /\ s_matches = <<>> /\ s_result = <<>>

\* no call of ElasticSearchTestMatcher on its own is under way
PoolIdle ==
    pool = [pc |-> "idle", batch |-> <<>>, state |-> <<>>, results |-> <<>>,
            reordered |-> FALSE, rv |-> <<>>, fault |-> "none"]

Init ==
    /\ \E J \in SubsetsUpTo(DOMAIN JobLineCatalog, MaxLines) :
          failure_lines = LineTable(J)
    /\ job \in JobRows
    /\ \E H \in HistChoices(job) :
          failure_matches = {HistEdgeCatalog[i] : i \in H}
    /\ es_up \in BOOLEAN
    /\ registry = RegisteredMatchers
    /\ pc = "fetch-job"
    /\ unmatched_failures = {} /\ all_matched = {} /\ matcher_idx = 1
    /\ calls = <<>> /\ good_enough = {} /\ saves = 0 /\ notified = 0
    /\ fault = "none"
    /\ run = 1
    /\ store0 = [lines |-> failure_lines, matches |-> failure_matches]
    /\ best_after = <<>>
    /\ ScorerIdle
    /\ PoolIdle

Next ==
    \/ FetchJob
    \/ FilterByResult
    \/ FetchUnmatched
    \/ RunMatcher
    \/ ResolveBest
    \/ Notify
    \/ NextRun

Spec == Init /\ [][Next]_vars


\* ------------------------------------------------- MatchScorer on its own
RECURSIVE SeqsUpTo(_, _)
\* the sequences over S of length at most n
SeqsUpTo(S, n) ==
    IF n = 0 THEN {<<>>}
    ELSE LET shorter == SeqsUpTo(S, n - 1)
         IN shorter \cup {Append(q, x) : q \in shorter, x \in S}

Messages == SeqsUpTo(Chars, MaxMsgLen)

\* candidate lists: (match, message) pairs, the match being the position
CandidateLists ==
    {[k \in 1..Len(ms) |-> <<k, ms[k]>>] : ms \in SeqsUpTo(Messages, MaxCands)}

InitScorer ==
    /\ failure_lines = LineTable({})
    /\ failure_matches = {}
    /\ job = [found |-> FALSE, id |-> 0, result |-> "none"]
    /\ es_up = FALSE
    /\ registry = RegisteredMatchers
    /\ pc = "score"
    /\ unmatched_failures = {} /\ all_matched = {} /\ matcher_idx = 1
    /\ calls = <<>> /\ good_enough = {} /\ saves = 0 /\ notified = 0
    /\ fault = "none"
    /\ run = 1
    /\ store0 = [lines |-> failure_lines, matches |-> failure_matches]
    /\ best_after = <<>>
    /\ s_target \in Messages
    /\ s_matches \in CandidateLists
    /\ s_result = <<>>
    /\ PoolIdle

\* scorer = MatchScorer(target); scorer.best_match(matches)
Score ==
    /\ pc = "score"
    /\ s_result' = best_match(s_target, s_matches)
    /\ pc' = "scored"
    /\ UNCHANGED <<failure_lines, failure_matches, job, es_up, registry,
                   unmatched_failures, all_matched, matcher_idx, calls,
                   good_enough, saves, notified, fault, run, store0,
                   best_after, s_target, s_matches, pool>>

NextScorer == Score

SpecScorer == InitScorer /\ [][NextScorer]_vars


\* ------------------------------------- match_errors under any registry order
\* Matcher.objects.registered_matchers() is not part of the files modelled;
\* here it may return the three registered matchers in any order.
RegistryOrders ==
    {r \in [1..3 -> Range(RegisteredMatchers)] :
        \A i, j \in 1..3 : r[i] = r[j] => i = j}

InitOrders ==
    /\ \E J \in SubsetsUpTo(DOMAIN JobLineCatalog, MaxLines) :
          failure_lines = LineTable(J)
    /\ job = [found |-> TRUE, id |-> 1, result |-> "testfailed"]
    /\ \E H \in HistChoices(job) :
          failure_matches = {HistEdgeCatalog[i] : i \in H}
    /\ es_up = TRUE
    /\ registry \in RegistryOrders
    /\ pc = "fetch-job"
    /\ unmatched_failures = {} /\ all_matched = {} /\ matcher_idx = 1
    /\ calls = <<>> /\ good_enough = {} /\ saves = 0 /\ notified = 0
    /\ fault = "none"
    /\ run = 1
    /\ store0 = [lines |-> failure_lines, matches |-> failure_matches]
    /\ best_after = <<>>
    /\ ScorerIdle
    /\ PoolIdle

\* one call of match_errors
NextOrders ==
    \/ FetchJob
    \/ FilterByResult
    \/ FetchUnmatched
    \/ RunMatcher
    \/ ResolveBest
    \/ Notify

SpecOrders == InitOrders /\ [][NextOrders]_vars


\* ------------------------- one ElasticSearchTestMatcher call and its Pool(4)
\* the kinds of line of a batch: a crash, and two test_result lines whose
\* queries give different responses
PoolKinds == {1, 2, 3}

\* the batches: up to MaxBatch distinct lines, the i-th with id i
PoolBatches ==
    UNION {{[i \in 1..n |-> [JobLineCatalog[k[i]] EXCEPT !.id = i]] :
               k \in [1..n -> PoolKinds]} : n \in 1..MaxBatch}

\* what a task of the pool returns: None, or the hits of the search
NoResp == [none |-> TRUE, hits |-> <<>>]

es_match_line(line, index) ==
    IF ESNotApplicable(line) THEN NoResp
    ELSE [none |-> FALSE, hits |-> ESHits(line, index, 1)]

InFlight(state) == {i \in DOMAIN state : state[i] = "running"}
Completed(state) == {i \in DOMAIN state : state[i] = "done"}

\* a map that hands out the results in the order the tasks finished
StoreResponseArrival(results, i, n, resp) == [results EXCEPT ![n + 1] = resp]

\* pool.map gives the result of the i-th task at position i, whatever the
\* number n of tasks that finished before it
StoreResponse(results, i, n, resp) == [results EXCEPT ![i] = resp]

RECURSIVE PoolScoreLoop(_, _, _)
\* "for failure_line, resp in izip(failure_lines, responses): ..."
PoolScoreLoop(batch, results, k) ==
    IF k > Len(batch) THEN [fault |-> "none", rv |-> <<>>]
    ELSE IF results[k].none THEN [fault |-> "TypeError", rv |-> <<>>]
    ELSE LET rest == PoolScoreLoop(batch, results, k + 1)
             best == best_match(batch[k].message, results[k].hits)
             m == IF best # <<>>
                  THEN << Match(batch[k].id, best[2].best_classification,
                                best[1], best[2].id) >>
                  ELSE <<>>
         IN IF rest.fault # "none" THEN rest
            ELSE [fault |-> "none", rv |-> m \o rest.rv]

PipelineUnchanged ==
    UNCHANGED <<failure_lines, failure_matches, job, es_up, registry, pc,
                unmatched_failures, all_matched, matcher_idx, calls,
                good_enough, saves, notified, fault, run, store0, best_after,
                s_target, s_matches, s_result>>

\* a free worker thread takes the next task of the queue
PoolStart(i) ==
    /\ pool.pc = "map"
    /\ pool.state[i] = "queued"
    /\ \A j \in 1..(i - 1) : pool.state[j] # "queued"
    /\ Cardinality(InFlight(pool.state)) < PoolSize
    /\ pool' = [pool EXCEPT !.state[i] = "running"]
    /\ PipelineUnchanged

\* es_match_line returns in a worker thread
PoolFinish(i) ==
    /\ pool.pc = "map"
    /\ pool.state[i] = "running"
    /\ pool' = [pool EXCEPT
                  !.state[i] = "done",
                  !.results = StoreResponse(@, i,
                                  Cardinality(Completed(pool.state)),
                                  es_match_line(pool.batch[i], ESIndex)),
                  !.reordered = @ \/ \E j \in 1..(i - 1) :
                                        pool.state[j] = "running"]
    /\ PipelineUnchanged

\* search.execute() raises in a worker thread: es_match_line logs and raises
\* again, and pool.map raises in the calling thread
PoolQueryFail(i) ==
    /\ pool.pc = "map"
    /\ pool.state[i] = "running"
    /\ ~ESNotApplicable(pool.batch[i])
    /\ pool' = [pool EXCEPT !.state[i] = "done", !.pc = "raised",
                            !.fault = "QueryFault"]
    /\ PipelineUnchanged

\* pool.map has returned the list of responses; the loop scores them
PoolScore ==
    /\ pool.pc = "map"
    /\ \A i \in DOMAIN pool.state : pool.state[i] = "done"
    /\ LET r == PoolScoreLoop(pool.batch, pool.results, 1)
       IN pool' = [pool EXCEPT
                     !.rv = r.rv, !.fault = r.fault,
                     !.pc = IF r.fault = "none" THEN "returned" ELSE "raised"]
    /\ PipelineUnchanged

InitPool ==
    /\ failure_lines = LineTable({})
    /\ failure_matches = {}
    /\ job = [found |-> FALSE, id |-> 0, result |-> "none"]
    /\ es_up = TRUE
    /\ registry = RegisteredMatchers
    /\ pc = "pool"
    /\ unmatched_failures = {} /\ all_matched = {} /\ matcher_idx = 1
    /\ calls = <<>> /\ good_enough = {} /\ saves = 0 /\ notified = 0
    /\ fault = "none"
    /\ run = 1
    /\ store0 = [lines |-> failure_lines, matches |-> failure_matches]
    /\ best_after = <<>>
    /\ ScorerIdle
    /\ \E b \in PoolBatches :
          pool = [pc |-> "map", batch |-> b,
                  state |-> [i \in DOMAIN b |-> "queued"],
                  results |-> [i \in DOMAIN b |-> NoResp],
                  reordered |-> FALSE, rv |-> <<>>, fault |-> "none"]

NextPool ==
    \/ \E i \in DOMAIN pool.batch : PoolStart(i)
    \/ \E i \in DOMAIN pool.batch : PoolFinish(i)
    \/ \E i \in DOMAIN pool.batch : PoolQueryFail(i)
    \/ PoolScore

SpecPool == InitPool /\ [][NextPool]_vars

\* ======================================================== claims C1 .. C10
EdgeById(id) == CHOOSE e \in failure_matches : e.id = id
RowOfEdge(id) == failure_lines[EdgeById(id).failure_line]
StoreMatchers == {"PreciseTestMatcher", "CrashSignatureMatcher"}
Returned(k) == Range(calls[k].rv)
NoSearchFailed ==
    /\ fault # "QueryFault"
    /\ \A r \in DOMAIN best_after : best_after[r].fault # "QueryFault"

\* C1: once a line has got a Match with score >= 0.9 in a run it is no
\* longer in the unresolved set, and no matcher called later in that run is
\* handed it, whatever the order of the registry.
C1_GoodEnoughNeverHandedAgain ==
    /\ unmatched_failures \cap good_enough = {}
    /\ \A k \in DOMAIN calls : calls[k].lines \cap calls[k].good_before = {}

\* a matcher was called after a line had been removed, with lines left
C1_Witness ==
    \E k \in DOMAIN calls : calls[k].good_before # {} /\ calls[k].lines # {}

\* C2: after the resolve step a touched line has the classified failure of
\* its best edge among those with score >= 0.7 (highest score, then highest
\* classified-failure id); with no such edge it keeps the
\* best_classification it had when the run started.
C2_BestIsHighestAboveCutoff ==
    (pc \in {"notify", "done"} /\ fault = "none") =>
        \A l \in all_matched :
            LET top == {e \in failure_matches :
                           e.failure_line = l /\ e.score >= 700}
                bc == failure_lines[l].best_classification
            IN IF top = {}
               THEN bc = store0.lines[l].best_classification
               ELSE \E e \in top :
                       /\ bc = e.classified_failure
                       /\ \A o \in top :
                             \/ o.score < e.score
                             \/ o.score = e.score
                                /\ o.classified_failure <= e.classified_failure

\* a finished run with one touched line newly classified and another
\* touched line, classified before, whose edges are all below 0.7
C2_Witness ==
    /\ pc = "done"
    /\ \E l \in all_matched :
          failure_lines[l].best_classification
              # store0.lines[l].best_classification
    /\ \E l \in all_matched :
          /\ store0.lines[l].best_classification # NoCF
          /\ \A e \in failure_matches : e.failure_line = l => e.score < 700

\* C3 (scenario B): the job's only line is crash line 1 (SIG1, T1), the only
\* edge at the start is on line 12 (SIG1, T2) with score 1.0, the search
\* connection exists: the crash matcher returns 0.8, the line stays
\* unresolved, the run raises no fault and ends with the line classified.
C3_ScenarioBCompletes ==
    (/\ es_up /\ job.found /\ job.result \in FailingResults
     /\ {l \in DOMAIN failure_lines : failure_lines[l].job_guid = JobGuid} = {1}
     /\ store0.matches = {HistEdgeCatalog[3]}
     /\ run = 1)
    => /\ pc # "fault"
       /\ \A k \in DOMAIN calls :
             calls[k].matcher = "CrashSignatureMatcher" =>
                /\ \E m \in Returned(k) : m.failure_line = 1 /\ m.score = 800
                /\ 1 \in unmatched_failures
       /\ pc = "done" => failure_lines[1].best_classification = 2

\* C4 as claimed: a failed search leaves the search matcher without a fault
\* and the run goes on.
C4_QueryFailureSwallowed ==
    \A k \in DOMAIN calls :
        calls[k].qfail # {} => calls[k].fault = "none" /\ pc # "fault"

\* C4 amended: a failed search is raised again: the matcher returns no Match
\* for any line of the batch, the fault ends match_errors before the resolve
\* and notify steps, and what was stored before stays.
C4_QueryFailurePropagates ==
    \A k \in DOMAIN calls :
        calls[k].qfail # {} =>
            /\ calls[k].fault = "QueryFault" /\ calls[k].rv = <<>>
            /\ k = Len(calls)
            /\ pc = "fault" /\ fault = "QueryFault"
            /\ notified = 0
            /\ BestOf(failure_lines) = BestOf(store0.lines)
            /\ store0.matches \subseteq failure_matches
            /\ {e \in failure_matches : e.id > NewEdgeBase} \ store0.matches
                  = {e \in failure_matches :
                        /\ e \notin store0.matches
                        /\ \E j \in 1..(k - 1) : \E m \in Returned(j) :
                              /\ m.failure_line = e.failure_line
                              /\ m.score = e.score
                              /\ e.matcher = calls[j].matcher}

\* a search failed in a batch of two lines after an earlier matcher of the
\* run had stored an edge
C4_Witness ==
    \E k \in DOMAIN calls :
        /\ calls[k].qfail # {}
        /\ Cardinality(calls[k].lines) >= 2
        /\ calls[k].lines \ calls[k].qfail # {}
        /\ failure_matches # store0.matches

\* C5 as claimed: no Match of the two store matchers comes from an edge of a
\* line of the same job or of a line without best_classification.
C5_NoUnclassifiedEvidence ==
    \A k \in DOMAIN calls :
        calls[k].matcher \in StoreMatchers =>
            \A m \in Returned(k) :
                /\ RowOfEdge(m.via).job_guid # failure_lines[m.failure_line].job_guid
                /\ RowOfEdge(m.via).best_classification # NoCF

\* C5 amended: no Match of the two store matchers comes from an edge of a
\* line of the same job, or of a line whose best_classification is unset
\* while best_is_verified is true.
C5_NoIgnoredEvidence ==
    \A k \in DOMAIN calls :
        calls[k].matcher \in StoreMatchers =>
            \A m \in Returned(k) :
                /\ RowOfEdge(m.via).job_guid # failure_lines[m.failure_line].job_guid
                /\ ~(/\ RowOfEdge(m.via).best_classification = NoCF
                     /\ RowOfEdge(m.via).best_is_verified)

\* the crash matcher returned a Match while the table held an edge with the
\* same signature on a line of the same job and one on an ignored line
C5_Witness ==
    \E k \in DOMAIN calls :
        /\ calls[k].matcher = "CrashSignatureMatcher"
        /\ \E m \in Returned(k) :
              LET line == failure_lines[m.failure_line]
                  same(e) == /\ failure_lines[e.failure_line].action = "crash"
                             /\ failure_lines[e.failure_line].signature = line.signature
              IN /\ \E e \in store0.matches :
                       same(e) /\ failure_lines[e.failure_line].job_guid = line.job_guid
                 /\ \E e \in store0.matches :
                       /\ same(e)
                       /\ failure_lines[e.failure_line].best_classification = NoCF
                       /\ failure_lines[e.failure_line].best_is_verified

\* C6: a Match of the crash matcher carries the score of the edge it was
\* taken from when the two lines have the same test, and 0.8 times that
\* score when the tests differ.
C6_PenaltyIffTestsDiffer ==
    \A k \in DOMAIN calls :
        calls[k].matcher = "CrashSignatureMatcher" =>
            \A m \in Returned(k) :
                IF RowOfEdge(m.via).test = failure_lines[m.failure_line].test
                THEN m.score = EdgeById(m.via).score
                ELSE 10 * m.score = 8 * EdgeById(m.via).score

\* the crash matcher returned a penalized Match in one run and an
\* unpenalized one is among the edges too
C6_Witness ==
    \E k \in DOMAIN calls :
        /\ calls[k].matcher = "CrashSignatureMatcher"
        /\ \E m \in Returned(k) :
              /\ RowOfEdge(m.via).test # failure_lines[m.failure_line].test
              /\ m.score = 800

\* C7: when the job is not found, or its result is not a failing one, or it
\* has no unmatched line, the run calls no matcher, writes nothing, sends no
\* notification, raises no fault and leaves the store as it was.
C7_GatesLeaveStoreUnchanged ==
    (\/ ~job.found
     \/ job.result \notin {"testfailed", "busted", "exception"}
     \/ unmatched_for_job(store0.lines, JobGuid) = {})
    => /\ pc \in {"fetch-job", "filter-by-result", "fetch-unmatched", "done"}
       /\ calls = <<>> /\ saves = 0 /\ notified = 0 /\ fault = "none"
       /\ failure_lines = store0.lines
       /\ failure_matches = store0.matches

\* a run of a failing job that has lines, none of them unmatched, and a
\* history of edges, has ended
C7_Witness ==
    /\ pc = "done"
    /\ job.found /\ job.result = "testfailed"
    /\ \E l \in DOMAIN failure_lines : failure_lines[l].job_guid = JobGuid
    /\ unmatched_for_job(store0.lines, JobGuid) = {}
    /\ failure_matches # {}

RECURSIVE Exhaustive(_, _, _, _)
\* the scan that computes the exact ratio of every candidate and keeps the
\* strictly greatest, the first seen winning ties
Exhaustive(target, matches, k, best) ==
    IF k > Len(matches) THEN best
    ELSE LET r == ratio(matches[k][2], target)
         IN Exhaustive(target, matches, k + 1,
                IF best = <<>> \/ r > best[1] THEN <<r, matches[k][1]>> ELSE best)

\* C8: best_match, with its pre-filter, returns what the exhaustive scan
\* returns.
C8_PrefilterEqualsExhaustive ==
    pc = "scored" => s_result = Exhaustive(s_target, s_matches, 1, <<>>)

\* scored: the first candidate's quick ratio exceeds its exact ratio, and
\* the second candidate was skipped by the pre-filter
C8_Witness ==
    /\ pc = "scored"
    /\ Len(s_matches) >= 2
    /\ quick_ratio(s_matches[1][2], s_target) > ratio(s_matches[1][2], s_target)
    /\ quick_ratio(s_matches[2][2], s_target) < s_result[1]

\* C9 as claimed: best_match returns no match for an empty target.
C9_EmptyTargetNoMatch ==
    (pc = "scored" /\ s_target = <<>>) => s_result = <<>>

\* C9 amended: best_match returns no match exactly when the candidate list
\* is empty; otherwise it returns a candidate of the list with its exact
\* ratio, for an empty target too (ratio 0, or 1.0 for an empty candidate).
C9_NoMatchIffNoCandidates ==
    pc = "scored" =>
        /\ s_result = <<>> <=> s_matches = <<>>
        /\ s_result # <<>> =>
              /\ s_result[2] \in DOMAIN s_matches
              /\ s_result[1] = ratio(s_matches[s_result[2]][2], s_target)
              /\ s_target = <<>> =>
                    s_result[1] = (IF s_matches[s_result[2]][2] = <<>>
                                   THEN 1000 ELSE 0)

\* scored with an empty target and candidates, none of them similar
C9_Witness ==
    /\ pc = "scored"
    /\ s_target = <<>>
    /\ s_matches # <<>>
    /\ \A k \in DOMAIN s_matches : s_matches[k][2] # <<>>

\* the half of C10 that the code keeps: among runs that raise no fault, a
\* run leaves best_classification as the run before it left it
SameOutcomeWhenNoFault ==
    (/\ run >= 2 /\ pc = "done" /\ fault = "none"
     /\ \A r \in DOMAIN best_after : best_after[r].fault = "none")
    => BestOf(failure_lines) = best_after[run - 1].best

\* C10: with no search failing, neither of two runs in a row raises a
\* fault, and the second leaves every line's best_classification as the
\* first left it.
C10_TwoRunsSameOutcome ==
    NoSearchFailed =>
        /\ pc # "fault"
        /\ (run >= 2 /\ pc = "done") =>
              BestOf(failure_lines) = best_after[run - 1].best


\* ======================================================= claims C11 .. C20
\* the edges the exact-field query of a line may use: identical fields, on
\* a line of another job that is not (unclassified and verified)
ExactEligible(line) ==
    {e \in failure_matches :
        LET hl == failure_lines[e.failure_line]
        IN /\ hl.action = "test_result" /\ line.action = "test_result"
           /\ hl.test = line.test /\ hl.subtest = line.subtest
           /\ hl.status = line.status /\ hl.expected = line.expected
           /\ hl.message = line.message
           /\ hl.job_guid # line.job_guid
           /\ ~(hl.best_classification = NoCF /\ hl.best_is_verified)}

MatchesFor(k, l) == {i \in DOMAIN calls[k].rv : calls[k].rv[i].failure_line = l}

\* C11: the exact-field matcher returns no Match for a line that is not a
\* test_result or has no eligible edge, and otherwise exactly one: it has
\* the score and the classified failure of an eligible edge with the
\* highest score and, among those, the highest classified-failure id.
C11_ExactFieldBestEdge ==
    \A k \in DOMAIN calls :
        calls[k].matcher = "PreciseTestMatcher" =>
            \A l \in calls[k].lines :
                LET line == failure_lines[l]
                    elig == ExactEligible(line)
                IN IF elig = {}
                   THEN MatchesFor(k, l) = {}
                   ELSE /\ Cardinality(MatchesFor(k, l)) = 1
                        /\ \A i \in MatchesFor(k, l) :
                              LET m == calls[k].rv[i]
                              IN /\ EdgeById(m.via) \in elig
                                 /\ m.score = EdgeById(m.via).score
                                 /\ m.classified_failure =
                                        EdgeById(m.via).classified_failure
                                 /\ \A o \in elig :
                                       \/ o.score < m.score
                                       \/ /\ o.score = m.score
                                          /\ o.classified_failure
                                                 <= m.classified_failure

\* the exact-field matcher chose between two eligible edges of equal score
\* and returned nothing for a crash line of the same batch
C11_Witness ==
    \E k \in DOMAIN calls :
        /\ calls[k].matcher = "PreciseTestMatcher"
        /\ \E l \in calls[k].lines : failure_lines[l].action = "crash"
        /\ \E m \in Returned(k) :
              \E o \in ExactEligible(failure_lines[m.failure_line]) :
                 /\ o.score = m.score
                 /\ o.classified_failure < m.classified_failure

\* C12: every score of a returned Match and of a FailureMatch row lies in
\* [0.0, 1.0].
C12_ScoresInUnitRange ==
    /\ \A e \in failure_matches : e.score >= 0 /\ e.score <= 1000
    /\ \A k \in DOMAIN calls : \A m \in Returned(k) :
          m.score >= 0 /\ m.score <= 1000

\* rows were created in this run by all three matchers, one of them from a
\* crash edge of score 1.0 on a line with another test
C12_Witness ==
    /\ \A n \in Range(RegisteredMatchers) :
          \E e \in failure_matches \ store0.matches : e.matcher = n
    /\ \E e \in failure_matches \ store0.matches :
          e.matcher = "ElasticSearchTestMatcher" /\ e.score < 1000


\* the rows of this run
NewEdges == failure_matches \ store0.matches

\* the Match m, returned by matcher n, has its row
Persisted(m, n) ==
    \E e \in NewEdges :
        /\ e.failure_line = m.failure_line
        /\ e.classified_failure = m.classified_failure
        /\ e.score = m.score
        /\ e.matcher = n

\* line l has the classification the resolve step gives it
Resolved(l) ==
    LET top == {e \in failure_matches : e.failure_line = l /\ e.score >= 700}
        bc == failure_lines[l].best_classification
    IN IF top = {}
       THEN bc = store0.lines[l].best_classification
       ELSE \E e \in top :
               /\ bc = e.classified_failure
               /\ \A o \in top : o.score <= e.score

\* C13: a run that passed the gates and raised no fault has notified the
\* job store once if a line was touched and not at all otherwise; when the
\* notification is sent the run is over, every returned Match has its row
\* and every touched line has its resolved best_classification.
C13_NotifiedOnceAfterWrites ==
    /\ notified <= 1
    /\ notified = 1 =>
          /\ pc = "done" /\ fault = "none" /\ all_matched # {}
          /\ \A k \in DOMAIN calls : \A m \in Returned(k) :
                Persisted(m, calls[k].matcher)
          /\ \A l \in all_matched : Resolved(l)
    /\ (pc = "done" /\ fault = "none" /\ calls # <<>>) =>
          notified = (IF all_matched # {} THEN 1 ELSE 0)

\* a notified run that stored rows of two matchers and classified a line
C13_Witness ==
    /\ notified = 1
    /\ Cardinality({e.matcher : e \in NewEdges}) >= 2
    /\ \E l \in all_matched :
          failure_lines[l].best_classification
              # store0.lines[l].best_classification

\* C14: a fault raised by a matcher ends match_errors with that fault: no
\* later matcher is called, the rows of the earlier matchers of the run
\* stay, no best_classification is assigned and no notification is sent.
C14_MatcherFaultPropagates ==
    /\ pc = "fault" <=> fault # "none"
    /\ \A k \in DOMAIN calls :
          calls[k].fault # "none" =>
             /\ k = Len(calls)
             /\ pc = "fault" /\ fault = calls[k].fault
             /\ notified = 0
             /\ BestOf(failure_lines) = BestOf(store0.lines)
             /\ \A j \in 1..(k - 1) : \A m \in Returned(j) :
                   Persisted(m, calls[j].matcher)

\* a run ended by a matcher's fault after an earlier matcher had stored a
\* row with score >= 0.7 for a line that stays unclassified
C14_Witness ==
    /\ pc = "fault"
    /\ \E e \in NewEdges :
          /\ e.score >= 700
          /\ failure_lines[e.failure_line].best_classification = NoCF


\* C15: a fuzzy search call with the connection present and no failing
\* query raises no fault, whatever lines are in the batch: it returns no
\* Match for a line that is not a test_result or has no message, and
\* returns the Matches of the other lines.
C15_InapplicableLinesSkipped ==
    \A k \in DOMAIN calls :
        (/\ calls[k].matcher = "ElasticSearchTestMatcher"
         /\ es_up /\ calls[k].qfail = {}) =>
            /\ calls[k].fault = "none"
            /\ \A l \in calls[k].lines :
                  ESNotApplicable(store0.lines[l]) => MatchesFor(k, l) = {}
            /\ \A l \in calls[k].lines :
                  (/\ ~ESNotApplicable(store0.lines[l])
                   /\ ESMatchLine(store0.lines[l], ESIndex) # <<>>) =>
                        MatchesFor(k, l) # {}


RECURSIVE OwnMatches(_, _)
\* the Matches of a batch, each line scored against the response to its own
\* query
OwnMatches(batch, k) ==
    IF k > Len(batch) THEN <<>>
    ELSE ESMatchLine(batch[k], ESIndex) \o OwnMatches(batch, k + 1)

\* C16: inside one fuzzy search call at most 4 queries are in flight, the
\* scoring starts only when every query has finished, and for every
\* completion order the Match of a line is computed from the response to
\* that line's own query.
C16_PoolBoundedAndIsolated ==
    /\ Cardinality(InFlight(pool.state)) <= 4
    /\ \A i \in Completed(pool.state) :
          pool.pc = "map" =>
              pool.results[i] = es_match_line(pool.batch[i], ESIndex)
    /\ pool.pc = "returned" =>
          /\ Completed(pool.state) = DOMAIN pool.batch
          /\ pool.rv = OwnMatches(pool.batch, 1)
    /\ (pool.pc = "raised" /\ pool.fault = "TypeError") =>
          Completed(pool.state) = DOMAIN pool.batch

\* a call on more lines than the pool has threads, whose queries finished
\* out of order and that returned different Matches for two lines
C16_Witness ==
    /\ pool.pc = "returned"
    /\ Len(pool.batch) > PoolSize
    /\ pool.reordered
    /\ \E i, j \in DOMAIN pool.rv :
          pool.rv[i].classified_failure # pool.rv[j].classified_failure


\* C17: the matchers are called in the order Exact-Field, Crash-Signature,
\* Fuzzy Search, one after the other: when a matcher is called, every Match
\* of the matcher before it has its row and the unresolved set is the one
\* the matcher before got minus the lines it matched with score >= 0.9;
\* no matcher is called with an empty unresolved set, and the loop ends
\* only when the unresolved set is empty or the three matchers have run.
C17_RegistrationOrderOneAtATime ==
    /\ Len(calls) <= 3
    /\ \A k \in DOMAIN calls :
          /\ calls[k].matcher =
                <<"PreciseTestMatcher", "CrashSignatureMatcher",
                  "ElasticSearchTestMatcher">>[k]
          /\ calls[k].lines # {}
          /\ k > 1 =>
                /\ calls[k - 1].fault = "none"
                /\ \A m \in Returned(k - 1) :
                      \E e \in NewEdges :
                         /\ e.id \in calls[k].edges_before
                         /\ e.failure_line = m.failure_line
                         /\ e.classified_failure = m.classified_failure
                         /\ e.score = m.score
                         /\ e.matcher = calls[k - 1].matcher
                /\ calls[k].lines = calls[k - 1].lines \
                      {m.failure_line : m \in {x \in Returned(k - 1) :
                                                  x.score >= 900}}
    /\ (pc \in {"resolve-best", "notify", "done"} /\ calls # <<>>) =>
          (unmatched_failures = {} \/ Len(calls) = 3)

\* the first two matchers each returned a Match, the second one got fewer
\* lines than the first and the third was still called
C17_Witness ==
    /\ Len(calls) = 3
    /\ Returned(1) # {} /\ Returned(2) # {}
    /\ calls[2].lines # calls[1].lines

\* the edges the crash matcher may select for a line at call k
CrashEligible(k, line) ==
    {e \in failure_matches :
        LET hl == failure_lines[e.failure_line]
        IN /\ e.id \in calls[k].edges_before
           /\ hl.action = "crash"
           /\ hl.signature = line.signature
           /\ hl.job_guid # line.job_guid
           /\ ~(hl.best_classification = NoCF /\ hl.best_is_verified)}

\* e is first among S by score, then classified-failure id
TopOf(e, S) ==
    /\ e \in S
    /\ \A o \in S :
          \/ o.score < e.score
          \/ o.score = e.score /\ o.classified_failure <= e.classified_failure

\* C18: the crash matcher returns, for a crash line with a signature, the
\* eligible edge of the same signature that is first by (same test, score,
\* classified-failure id): when an eligible edge of the same test exists
\* the Match is the top one of these, with its score unchanged; otherwise
\* it is the top eligible edge with 0.8 of its score.
C18_SameTestFirst ==
    \A k \in DOMAIN calls :
        calls[k].matcher = "CrashSignatureMatcher" =>
            \A l \in calls[k].lines :
                LET line == failure_lines[l]
                    elig == CrashEligible(k, line)
                    same == {e \in elig :
                                failure_lines[e.failure_line].test = line.test}
                IN IF line.action # "crash" \/ line.signature = NoneVal
                      \/ elig = {}
                   THEN MatchesFor(k, l) = {}
                   ELSE /\ Cardinality(MatchesFor(k, l)) = 1
                        /\ \A i \in MatchesFor(k, l) :
                              LET m == calls[k].rv[i]
                                  e == EdgeById(m.via)
                              IN /\ m.classified_failure = e.classified_failure
                                 /\ IF same # {}
                                    THEN TopOf(e, same) /\ m.score = e.score
                                    ELSE /\ TopOf(e, elig)
                                         /\ m.score = (8 * e.score) \div 10

\* a Match on an edge of the same test although an eligible edge of another
\* test has a higher score after the penalty
C18_Witness ==
    \E k \in DOMAIN calls :
        /\ calls[k].matcher = "CrashSignatureMatcher"
        /\ \E m \in Returned(k) :
              LET line == failure_lines[m.failure_line]
              IN /\ failure_lines[EdgeById(m.via).failure_line].test = line.test
                 /\ \E o \in CrashEligible(k, line) :
                       /\ failure_lines[o.failure_line].test # line.test
                       /\ (8 * o.score) \div 10 > m.score

\* C19: every matcher returns at most one Match per line and only for
\* lines of the unresolved set it was given; the removal of a line from the
\* unresolved set never fails, and a run adds at most one row per line and
\* matcher.
C19_OneMatchPerLine ==
    /\ \A k \in DOMAIN calls :
          /\ \A i, j \in DOMAIN calls[k].rv :
                calls[k].rv[i].failure_line = calls[k].rv[j].failure_line
                    => i = j
          /\ \A m \in Returned(k) : m.failure_line \in calls[k].lines
    /\ fault # "KeyError"
    /\ \A r \in DOMAIN best_after : best_after[r].fault # "KeyError"
    /\ \A e1, e2 \in NewEdges :
          (e1.failure_line = e2.failure_line /\ e1.matcher = e2.matcher)
              => e1 = e2

\* one call returned a Match with score >= 0.9 for each of two lines and
\* both were removed from the unresolved set
C19_Witness ==
    \E k \in DOMAIN calls :
        /\ Cardinality({m \in Returned(k) : m.score >= 900}) >= 2
        /\ Cardinality(calls[k].lines) >= 2
        /\ unmatched_failures = {}
        /\ fault = "none"

\* C20: in a run without fault, when the resolve step is over every line
\* that was removed from the unresolved set by a Match with score >= 0.9
\* has a best_classification, and a row of the line with that classified
\* failure has a score >= the score of that Match.
C20_GoodEnoughGetsClassified ==
    (pc \in {"notify", "done"} /\ fault = "none") =>
        \A l \in good_enough :
            /\ failure_lines[l].best_classification # NoCF
            /\ \E e \in failure_matches :
                  /\ e.failure_line = l
                  /\ e.classified_failure = failure_lines[l].best_classification
                  /\ \A k \in DOMAIN calls : \A m \in Returned(k) :
                        (m.failure_line = l /\ m.score >= 900)
                            => e.score >= m.score

\* the resolve step is over, the notification is not sent yet, and a line
\* removed by a Match with a score below 1.0 has its classification
C20_Witness ==
    /\ pc = "notify"
    /\ fault = "none"
    /\ \E l \in good_enough :
          /\ failure_lines[l].best_classification # NoCF
          /\ \E k \in DOMAIN calls : \E m \in Returned(k) :
                m.failure_line = l /\ m.score >= 900 /\ m.score < 1000

====
